---- MODULE Spec2Model ----
(***************************************************************************)
(* Model of backend/src/usersAPI/main.go: the Lambda handler that reads    *)
(* (GET) or updates (PUT) the caller's row of the `users` table and merges *)
(* it with the Cognito attributes of the caller's access token.            *)
(*                                                                         *)
(* Strings are sequences of one-character strings, so that strings.Split,  *)
(* json.Marshal and json.HTMLEscape are computed character by character.   *)
(* The columns CreatedAt and UpdatedAt of User are not modelled: no branch *)
(* of the handlers reads them and they change only inside db.Save, whose   *)
(* write of the row is modelled.                                           *)
(***************************************************************************)
EXTENDS Naturals, Sequences, FiniteSets, TLC

\* Longest attribute list the identity provider returns.
MaxAttrs == 2
\* Most spaces between the scheme and the token of an authorization header.
MaxSpaces == 1

VARIABLES
    store,    \* the users table: primary key (username) -> row
    pc,       \* "idle" | "responded": the serial invocations
    req,      \* the request of the current (or last) serial invocation
    resp,     \* its outcome: a Response, or the panic of the handler
    lastPut,  \* history: caller and body of the last PUT answered 200
    cpc,      \* concurrent invocations: process -> "start" | "loaded" | "done"
    creq,     \* concurrent invocations: process -> request
    cuser,    \* concurrent invocations: process -> the `user` local of update
    cresp,    \* concurrent invocations: process -> outcome
    writer,   \* history: primary key -> process whose db.Save wrote it last
    store0    \* history: the table when the concurrent invocations began

vars == <<store, pc, req, resp, lastPut, cpc, creq, cuser, cresp, writer, store0>>
serialVars == <<pc, req, resp, lastPut>>
concVars == <<cpc, creq, cuser, cresp, writer, store0>>

----------------------------------------------------------------------------
\* Values

\* The usernames the authorizer asserts and request bodies may name.
Usernames == {<<"a", "n", "n">>, <<"b", "o", "b">>}

\* time.Time{} and one instant after it; TimeText is the RFC 3339 text of
\* SomeTime as it appears in a JSON body.
ZeroTime == "0001-01-01T00:00:00Z"
SomeTime == "2024-05-01T10:00:00Z"
TimeText == <<"2", "0", "2", "4">>

BioVals == {<<"<", "b", ">">>}
PicVals == {<<"p", "&">>}
EmailVals == {<<>>, <<"e", "@">>}
NickVals == {<<"n">>}

\* A zero-valued User row for a username (Bio, ProfilePicture "", no times).
NewUser(u) ==
    [Username |-> u, Bio |-> <<>>, ProfilePicture |-> <<>>, DeletedAt |-> ZeroTime]

\* var user User
ZeroUser == NewUser(<<>>)

----------------------------------------------------------------------------
\* strings.Split(s, " ")

\* Index of the first sep in s at or after position i, or 0.
RECURSIVE IndexFrom(_, _, _)
IndexFrom(s, sep, i) ==
    IF i > Len(s) THEN 0
    ELSE IF s[i] = sep THEN i
    ELSE IndexFrom(s, sep, i + 1)

RECURSIVE Split(_, _)
Split(s, sep) ==
    LET i == IndexFrom(s, sep, 1)
    IN  IF i = 0 THEN <<s>>
        ELSE <<SubSeq(s, 1, i - 1)>> \o Split(SubSeq(s, i + 1, Len(s)), sep)

----------------------------------------------------------------------------
\* encoding/json

Hex4(c) ==
    CASE c = "<" -> <<"\\", "u", "0", "0", "3", "c">>
      [] c = ">" -> <<"\\", "u", "0", "0", "3", "e">>
      [] c = "&" -> <<"\\", "u", "0", "0", "2", "6">>

\* One character of a string as json.Marshal writes it (escapeHTML is on).
EncodeChar(c) ==
    IF c \in {"<", ">", "&"} THEN Hex4(c)
    ELSE IF c \in {"\"", "\\"} THEN <<"\\", c>>
    ELSE <<c>>

RECURSIVE EncodeChars(_)
EncodeChars(s) ==
    IF s = <<>> THEN <<>> ELSE EncodeChar(Head(s)) \o EncodeChars(Tail(s))

\* json.Marshal of a Go string: the quoted, escaped JSON text.
MarshalString(s) == <<"\"">> \o EncodeChars(s) \o <<"\"">>

\* json.HTMLEscape: <, > and & inside the JSON text become \u00XX.
RECURSIVE HTMLEscape(_)
HTMLEscape(t) ==
    IF t = <<>> THEN <<>>
    ELSE (IF Head(t) \in {"<", ">", "&"} THEN Hex4(Head(t)) ELSE <<Head(t)>>)
         \o HTMLEscape(Tail(t))

\* The keys of the map read marshals.
KeyBio == <<"b", "i", "o">>
KeyEmail == <<"e", "m", "a", "i", "l">>
KeyNickname == <<"n", "i", "c", "k", "n", "a", "m", "e">>
KeyProfilePicture ==
    <<"p", "r", "o", "f", "i", "l", "e", "P", "i", "c", "t", "u", "r", "e">>
KeyUsername == <<"u", "s", "e", "r", "n", "a", "m", "e">>

\* json.Marshal of a map[string]interface{} of strings, given as the
\* sequence of its <<key, value>> pairs in the sorted order of the keys,
\* which is the order Marshal writes them in.
RECURSIVE MarshalMembers(_)
MarshalMembers(kvs) ==
    IF kvs = <<>> THEN <<>>
    ELSE MarshalString(Head(kvs)[1]) \o <<":">> \o MarshalString(Head(kvs)[2])
         \o (IF Len(kvs) > 1 THEN <<",">> ELSE <<>>)
         \o MarshalMembers(Tail(kvs))

MarshalMap(kvs) == <<"{">> \o MarshalMembers(kvs) \o <<"}">>

\* A faulty MarshalProfile: members whose value is "" are left out, as
\* with `omitempty` on a struct.
RECURSIVE NonEmptyMembers(_)
NonEmptyMembers(kvs) ==
    IF kvs = <<>> THEN <<>>
    ELSE (IF Head(kvs)[2] = <<>> THEN <<>> ELSE <<Head(kvs)>>)
         \o NonEmptyMembers(Tail(kvs))

MarshalProfileOmitEmpty(username, nickname, email, user) ==
    HTMLEscape(MarshalMap(NonEmptyMembers(
        << <<KeyBio, user.Bio>>,
           <<KeyEmail, email>>,
           <<KeyNickname, nickname>>,
           <<KeyProfilePicture, user.ProfilePicture>>,
           <<KeyUsername, username>> >>)))

\* The body of a 200 of read: json.Marshal of the map, then json.HTMLEscape.
MarshalProfile(username, nickname, email, user) ==
    HTMLEscape(MarshalMap(<< <<KeyBio, user.Bio>>,
                             <<KeyEmail, email>>,
                             <<KeyNickname, nickname>>,
                             <<KeyProfilePicture, user.ProfilePicture>>,
                             <<KeyUsername, username>> >>))

----------------------------------------------------------------------------
\* Requests (events.APIGatewayV2HTTPRequest) and their inputs

\* A JSON value of a request body or of the authorizer's context.
JString(s) == [t |-> "string", s |-> s]
JNumber == [t |-> "number", s |-> <<>>]

\* req.RequestContext.Authorizer.Lambda: with or without a "username" entry.
Claims ==
    {<<>>} \cup {[k \in {"username"} |-> v] : v \in {JNumber} \cup {JString(u) : u \in Usernames}}

\* req.Headers: with or without an "authorization" entry.
\* "B", then n spaces, then "t": the scheme and the token.
AuthVals == {<<"B">> \o [i \in 1..n |-> " "] \o <<"t">> : n \in 0..MaxSpaces}
HeaderSets == {<<>>} \cup {[k \in {"authorization"} |-> v] : v \in AuthVals}

\* req.Body. kind "invalid" is a text that is no JSON value, "null" the JSON
\* null, "object" a JSON object. A key stands for every spelling of it that
\* json.Unmarshal matches to the struct field (the match ignores case).
BodyKeys == {"username", "bio", "profilePicture", "deletedAt"}
KeyVals(k) ==
    CASE k = "username" -> {JString(u) : u \in Usernames}
      [] k = "bio" -> {JNumber} \cup {JString(b) : b \in BioVals}
      [] k = "profilePicture" -> {JString(p) : p \in PicVals}
      [] k = "deletedAt" -> {JString(TimeText)}
AllKeyVals == UNION {KeyVals(k) : k \in BodyKeys}
Objects ==
    {f \in UNION {[D -> AllKeyVals] : D \in SUBSET BodyKeys} :
        \A k \in DOMAIN f : f[k] \in KeyVals(k)}
NoBody == [kind |-> "invalid", fields |-> <<>>]
Bodies ==
    {NoBody, [kind |-> "null", fields |-> <<>>]}
    \cup {[kind |-> "object", fields |-> f] : f \in Objects}

\* Methods handler has no case for.
OtherMethods == {"DELETE", "POST"}

\* The requests the runtime hands to handler. read never looks at the body
\* and update never at the headers, so each is fixed where it is not read.
GetRequests ==
    {[method |-> "GET", claims |-> c, headers |-> h, body |-> NoBody] :
        c \in Claims, h \in HeaderSets}
PutRequests ==
    {[method |-> "PUT", claims |-> c, headers |-> <<>>, body |-> b] :
        c \in Claims, b \in Bodies}
OtherRequests ==
    {[method |-> m, claims |-> c, headers |-> <<>>, body |-> NoBody] :
        m \in OtherMethods, c \in Claims}

\* map lookup: the zero value when the key is absent
HeaderGet(h, k) == IF k \in DOMAIN h THEN h[k] ELSE <<>>

\* req.RequestContext.Authorizer.Lambda["username"].(string)
ClaimString(c, k) ==
    IF k \in DOMAIN c /\ c[k].t = "string"
    THEN [ok |-> TRUE, s |-> c[k].s]
    ELSE [ok |-> FALSE, s |-> <<>>]

----------------------------------------------------------------------------
\* The collaborators: what the database and Cognito answer in one invocation

\* UserAttributes: attribute lists with distinct names, at most MaxAttrs long.
AttrPool ==
    {[Name |-> "email", Value |-> v] : v \in EmailVals}
    \cup {[Name |-> "nickname", Value |-> v] : v \in NickVals}
    \cup {[Name |-> "sub", Value |-> <<"s">>]}
AttrLists ==
    {a \in UNION {[1..n -> AttrPool] : n \in 0..MaxAttrs} :
        \A i, j \in DOMAIN a : i # j => a[i].Name # a[j].Name}
IdpResults ==
    {[err |-> TRUE, attrs |-> <<>>]}
    \cup {[err |-> FALSE, attrs |-> a] : a \in AttrLists}

\* What the collaborators answer in one invocation. dbUp: gorm.Open
\* succeeds; saveOk: the write succeeds; clientOk: config.LoadDefaultConfig
\* succeeds; idp: GetUser's answer. read makes no write and update no call
\* on Cognito, so each is fixed where it is not used. A SELECT on an open
\* connection is taken to run: First fails only for want of a row.
IdpDown == [err |-> TRUE, attrs |-> <<>>]
ReadEnvs == [dbUp : BOOLEAN, saveOk : {TRUE}, clientOk : BOOLEAN, idp : IdpResults]
UpdateEnvs == [dbUp : BOOLEAN, saveOk : BOOLEAN, clientOk : {TRUE}, idp : {IdpDown}]
OtherEnvs == [dbUp : {TRUE}, saveOk : {TRUE}, clientOk : {TRUE}, idp : {IdpDown}]

\* One call on a collaborator, as recorded in an outcome.
\* arg is the string passed (username, token), out what came back.
Call(op, arg, ok, out) == [op |-> op, arg |-> arg, ok |-> ok, out |-> out]

\* db.Where("username = ?", username).First(&user): DeletedAt is a plain
\* time.Time column, so the query carries no condition on it.
First(db, username) ==
    IF username \in DOMAIN db
    THEN [err |-> FALSE, user |-> db[username]]
    ELSE [err |-> TRUE, user |-> ZeroUser]

\* A faulty Save: only the columns that are not zero are written, as
\* db.Updates(&user) does.
SaveNonZero(db, user, saveOk) ==
    LET old == IF user.Username \in DOMAIN db THEN db[user.Username]
               ELSE NewUser(user.Username)
        row == [Username |-> user.Username,
                Bio |-> IF user.Bio = <<>> THEN old.Bio ELSE user.Bio,
                ProfilePicture |->
                    IF user.ProfilePicture = <<>> THEN old.ProfilePicture
                    ELSE user.ProfilePicture,
                DeletedAt |->
                    IF user.DeletedAt = ZeroTime THEN old.DeletedAt ELSE user.DeletedAt]
    IN  IF saveOk
        THEN [err |-> FALSE,
              db |-> [k \in DOMAIN db \cup {user.Username} |->
                        IF k = user.Username THEN row ELSE db[k]]]
        ELSE [err |-> TRUE, db |-> db]

\* db.Save(&user): writes every column of the row whose primary key is
\* user.Username, inserting the row when there is none.
Save(db, user, saveOk) ==
    IF saveOk
    THEN [err |-> FALSE,
          db |-> [k \in DOMAIN db \cup {user.Username} |->
                    IF k = user.Username THEN user ELSE db[k]]]
    ELSE [err |-> TRUE, db |-> db]

\* time.Time's UnmarshalJSON on a JSON string
ParseTime(s) ==
    IF s = TimeText THEN [ok |-> TRUE, t |-> SomeTime] ELSE [ok |-> FALSE, t |-> ZeroTime]

\* json.Unmarshal([]byte(req.Body), &user): every member of the object whose
\* key matches a field is decoded into that field; a value of the wrong type
\* is skipped and reported once the object has been read.
Unmarshal(body, user) ==
    IF body.kind = "invalid" THEN [err |-> TRUE, user |-> user]
    ELSE IF body.kind = "null" THEN [err |-> FALSE, user |-> user]
    ELSE
      LET f == body.fields
          has(k) == k \in DOMAIN f /\ f[k].t = "string"
          timeOk == has("deletedAt") /\ ParseTime(f["deletedAt"].s).ok
          bad == \/ \E k \in DOMAIN f : f[k].t # "string"
                 \/ has("deletedAt") /\ ~timeOk
      IN  [err |-> bad,
           user |->
             [Username |-> IF has("username") THEN f["username"].s ELSE user.Username,
              Bio |-> IF has("bio") THEN f["bio"].s ELSE user.Bio,
              ProfilePicture |->
                  IF has("profilePicture") THEN f["profilePicture"].s
                  ELSE user.ProfilePicture,
              DeletedAt |->
                  IF timeOk THEN ParseTime(f["deletedAt"].s).t ELSE user.DeletedAt]]

----------------------------------------------------------------------------
\* Outcomes of an invocation

\* A Response returned with a nil error.
Response(status, body, headers, calls) ==
    [kind |-> "response", StatusCode |-> status, Body |-> body,
     Headers |-> headers, calls |-> calls]

\* A Response returned together with a non-nil error: the runtime reports
\* the error of the invocation.
Failed(status, body, calls) ==
    [kind |-> "error", StatusCode |-> status, Body |-> body,
     Headers |-> <<>>, calls |-> calls]

\* The handler panicked: no Response is returned.
Panic(text, calls) ==
    [kind |-> "panic", StatusCode |-> 0, Body |-> <<text>>,
     Headers |-> <<>>, calls |-> calls]

NoOutcome ==
    [kind |-> "none", StatusCode |-> 0, Body |-> <<>>, Headers |-> <<>>, calls |-> <<>>]

DbErrText == <<"error: failed to connect to AWS RDS: ", "dial tcp: connection refused">>
CfgErrText == <<"failed to load SDK configuration">>
IdpErrText == <<"NotAuthorizedException: Invalid Access Token">>
SaveErrText == <<"Error 1205: Lock wait timeout exceeded">>

----------------------------------------------------------------------------
\* The handlers

\* The value of the last attribute of the list that has the name, or "":
\* the loop of read over cogInfo.UserAttributes.
AttrNamed(attrs, name) ==
    LET hits == {i \in DOMAIN attrs : attrs[i].Name = name}
    IN  IF hits = {} THEN <<>>
        ELSE attrs[CHOOSE i \in hits : \A j \in hits : j <= i].Value

\* A faulty readMerge: the row is looked up before the email is checked.
readMergeLookupFirst(db, username, attrs, calls) ==
    LET email == AttrNamed(attrs, "email")
        nickname == AttrNamed(attrs, "nickname")
        found == First(db, username)
        c4 == calls \o <<Call("First", username, ~found.err, <<>>)>>
    IN  IF found.err THEN Response(404, <<"user not found">>, <<>>, c4)
        ELSE IF Len(email) = 0
        THEN Response(500, <<"could not find user email">>, <<>>, c4)
        ELSE Response(200, MarshalProfile(username, nickname, email, found.user),
                      [h \in {"Content-Type"} |-> "application/json"], c4)

\* read from the loop over the attributes on: the merge of the attributes
\* with the caller's row. calls are the calls made so far.
readMerge(db, username, attrs, calls) ==
    LET email == AttrNamed(attrs, "email")
        nickname == AttrNamed(attrs, "nickname")
        found == First(db, username)
        c4 == calls \o <<Call("First", username, ~found.err, <<>>)>>
    IN  IF Len(email) = 0
        THEN Response(500, <<"could not find user email">>, <<>>, calls)
        ELSE IF found.err THEN Response(404, <<"user not found">>, <<>>, c4)
        ELSE Response(200, MarshalProfile(username, nickname, email, found.user),
                      [h \in {"Content-Type"} |-> "application/json"], c4)

\* read(ctx, req) with the collaborators answering as e says.
read(db, r, e) ==
    LET c1 == <<Call("connectDB", <<>>, e.dbUp, <<>>)>>
        username == ClaimString(r.claims, "username")
        c2 == c1 \o <<Call("initClient", <<>>, e.clientOk, <<>>)>>
        fields == Split(HeaderGet(r.headers, "authorization"), " ")
        authToken == fields[2]
        c3 == c2 \o <<Call("GetUser", authToken, ~e.idp.err, e.idp.attrs)>>
    IN  IF ~e.dbUp THEN Response(500, DbErrText, <<>>, c1)
        ELSE IF ~username.ok THEN Response(500, <<"failed to parse username">>, <<>>, c1)
        ELSE IF ~e.clientOk THEN Response(500, CfgErrText, <<>>, c2)
        ELSE IF Len(fields) < 2
             THEN Panic("runtime error: index out of range [1] with length 1", c2)
        ELSE IF e.idp.err THEN Response(500, IdpErrText, <<>>, c3)
        ELSE readMerge(db, username.s, e.idp.attrs, c3)

\* update(req) up to the lookup of the caller's row: either it has returned
\* (done) or `user` holds the row found.
updateLoad(db, r, e) ==
    LET c1 == <<Call("connectDB", <<>>, e.dbUp, <<>>)>>
        username == ClaimString(r.claims, "username")
        found == First(db, username.s)
        c2 == c1 \o <<Call("First", username.s, ~found.err, <<>>)>>
    IN  IF ~e.dbUp
        THEN [done |-> TRUE, user |-> ZeroUser, out |-> Failed(500, DbErrText, c1)]
        ELSE IF ~username.ok
        THEN [done |-> TRUE, user |-> ZeroUser,
              out |-> Response(500, <<"failed to parse username">>, <<>>, c1)]
        ELSE IF found.err
        THEN [done |-> TRUE, user |-> ZeroUser,
              out |-> Response(404, <<"user not found">>, <<>>, c2)]
        ELSE [done |-> FALSE, user |-> found.user,
              out |-> Response(0, <<>>, <<>>, c2)]

\* A faulty updateSave: the row is written before the error of
\* json.Unmarshal is looked at.
updateSaveBeforeCheck(db, r, user, calls, e) ==
    LET patched == Unmarshal(r.body, user)
        saved == Save(db, patched.user, e.saveOk)
        c3 == calls \o <<Call("Save", patched.user.Username, ~saved.err, <<>>)>>
    IN  IF saved.err
        THEN [db |-> db, out |-> Response(500, SaveErrText, <<>>, c3)]
        ELSE IF patched.err
        THEN [db |-> saved.db,
              out |-> Response(400, <<"invalid request body">>, <<>>, c3)]
        ELSE [db |-> saved.db,
              out |-> Response(200, <<"user updated successfully">>, <<>>, c3)]

\* update(req) from json.Unmarshal on: `user` is the row loaded, calls the
\* calls made so far; db is the table at the time of db.Save.
updateSave(db, r, user, calls, e) ==
    LET patched == Unmarshal(r.body, user)
        saved == Save(db, patched.user, e.saveOk)
        c3 == calls \o <<Call("Save", patched.user.Username, ~saved.err, <<>>)>>
    IN  IF patched.err
        THEN [db |-> db, out |-> Response(400, <<"invalid request body">>, <<>>, calls)]
        ELSE IF saved.err
        THEN [db |-> db, out |-> Response(500, SaveErrText, <<>>, c3)]
        ELSE [db |-> saved.db,
              out |-> Response(200, <<"user updated successfully">>, <<>>, c3)]

\* update(req) run from start to end against the table db.
update(db, r, e) ==
    LET l == updateLoad(db, r, e)
    IN  IF l.done THEN [db |-> db, out |-> l.out]
        ELSE updateSave(db, r, l.user, l.out.calls, e)

\* A faulty handler: POST is dispatched like PUT.
handlerPostAsPut(db, r, e) ==
    CASE r.method = "GET" -> [db |-> db, out |-> read(db, r, e)]
      [] r.method \in {"PUT", "POST"} -> update(db, r, e)
      [] OTHER ->
           [db |-> db,
            out |-> Response(405, <<"HTTP method '", r.method, "' not allowed">>,
                             <<>>, <<>>)]

\* handler(ctx, req): the switch on the method.
handler(db, r, e) ==
    CASE r.method = "GET" -> [db |-> db, out |-> read(db, r, e)]
      [] r.method = "PUT" -> update(db, r, e)
      [] OTHER ->
           [db |-> db,
            out |-> Response(405, <<"HTTP method '", r.method, "' not allowed">>,
                             <<>>, <<>>)]

----------------------------------------------------------------------------
\* Serial invocations: the runtime hands one request at a time to handler

NoRequest == [method |-> "", claims |-> <<>>, headers |-> <<>>, body |-> NoBody]
NoPut == [set |-> FALSE, caller |-> <<>>, fields |-> <<>>]

Procs == {"p", "q"}

\* The tables an invocation can find: every registered user has a row.
InitStores == {[u \in S |-> NewUser(u)] : S \in SUBSET Usernames}

\* No concurrent invocation exists.
ConcIdle ==
    /\ cpc = <<>>
    /\ creq = <<>>
    /\ cuser = <<>>
    /\ cresp = <<>>
    /\ writer = <<>>
    /\ store0 = <<>>

Init ==
    /\ store \in InitStores
    /\ pc = "idle"
    /\ req = NoRequest
    /\ resp = NoOutcome
    /\ lastPut = NoPut
    /\ ConcIdle

\* The history of the last PUT answered 200: its caller and the members of
\* its body that name bio or profilePicture.
NextPut(r, out) ==
    IF r.method = "PUT" /\ out.kind = "response" /\ out.StatusCode = 200
    THEN [set |-> TRUE, caller |-> ClaimString(r.claims, "username").s,
          fields |-> [k \in DOMAIN r.body.fields \cap {"bio", "profilePicture"} |->
                        r.body.fields[k]]]
    ELSE lastPut

\* lambda.Start: the runtime hands request r to handler, which runs to its
\* end with the collaborators answering as e says.
Invoke(r, e) ==
    /\ pc = "idle"
    /\ \E h \in {handler(store, r, e)} :
         /\ store' = h.db
         /\ resp' = h.out
    /\ req' = r
    /\ pc' = "responded"
    /\ UNCHANGED concVars

ReadProfile ==
    \E r \in GetRequests, e \in ReadEnvs : Invoke(r, e) /\ UNCHANGED lastPut

UpdateProfile ==
    \E r \in PutRequests, e \in UpdateEnvs : Invoke(r, e) /\ UNCHANGED lastPut

MethodNotAllowed ==
    \E r \in OtherRequests, e \in OtherEnvs : Invoke(r, e) /\ UNCHANGED lastPut

\* The runtime delivers the outcome and waits for the next event.
Reply ==
    /\ pc = "responded"
    /\ pc' = "idle"
    /\ req' = NoRequest
    /\ resp' = NoOutcome
    /\ UNCHANGED <<store, lastPut, concVars>>

Next == ReadProfile \/ UpdateProfile \/ MethodNotAllowed \/ Reply

Spec == Init /\ [][Next]_vars

\* The same invocations with the history of the last successful PUT kept.
RecordedUpdate ==
    \E r \in PutRequests, e \in UpdateEnvs :
        Invoke(r, e) /\ lastPut' = NextPut(r, resp')

NextHist == ReadProfile \/ RecordedUpdate \/ MethodNotAllowed \/ Reply

SpecHist == Init /\ [][NextHist]_vars

----------------------------------------------------------------------------
\* Reading an outcome

\* The string a JSON text denotes, read from the opening quote at t[i]:
\* [s: the string, next: the index after the closing quote].
HexChar(h) ==
    CASE h = <<"0", "0", "3", "c">> -> "<"
      [] h = <<"0", "0", "3", "e">> -> ">"
      [] h = <<"0", "0", "2", "6">> -> "&"
      [] OTHER -> "?"

RECURSIVE ReadChars(_, _, _)
ReadChars(t, i, acc) ==
    IF t[i] = "\"" THEN [s |-> acc, next |-> i + 1]
    ELSE IF t[i] = "\\"
    THEN IF t[i + 1] = "u"
         THEN ReadChars(t, i + 6, Append(acc, HexChar(SubSeq(t, i + 2, i + 5))))
         ELSE ReadChars(t, i + 2, Append(acc, t[i + 1]))
    ELSE ReadChars(t, i + 1, Append(acc, t[i]))

ReadString(t, i) == ReadChars(t, i + 1, <<>>)

\* The members of a JSON object of strings, in the order of the text.
RECURSIVE ReadMembers(_, _, _)
ReadMembers(t, i, acc) ==
    IF t[i] = "}" THEN acc
    ELSE IF t[i] = "," THEN ReadMembers(t, i + 1, acc)
    ELSE LET k == ReadString(t, i)
             v == ReadString(t, k.next + 1)
         IN  ReadMembers(t, v.next, Append(acc, <<k.s, v.s>>))

ParseObject(t) == ReadMembers(t, 2, <<>>)

JsonKeys(t) == {ParseObject(t)[i][1] : i \in DOMAIN ParseObject(t)}
JsonValues(t, k) ==
    {ParseObject(t)[i][2] : i \in {j \in DOMAIN ParseObject(t) : ParseObject(t)[j][1] = k}}

\* The caller the authorizer asserts in the request of the serial invocation.
Caller == ClaimString(req.claims, "username")

\* The authorization header of the request has a second field.
HeaderHasToken == Len(Split(HeaderGet(req.headers, "authorization"), " ")) >= 2

Answered(m) == pc = "responded" /\ req.method = m

\* The calls of the outcome on one collaborator operation.
CallsOf(out, op) == {i \in DOMAIN out.calls : out.calls[i].op = op}
\* gorm.Open, LoadDefaultConfig, GetUser and db.Save all succeeded where
\* they were called (First is no collaborator's failure: it fails for want
\* of a row).
CollaboratorsUp(out) ==
    \A i \in DOMAIN out.calls : out.calls[i].op # "First" => out.calls[i].ok

\* Cognito answered the outcome's GetUser call with these attributes.
IdpAnswered(out) == \E i \in CallsOf(out, "GetUser") : out.calls[i].ok
IdpAttrs(out) == out.calls[CHOOSE i \in CallsOf(out, "GetUser") : TRUE].out

\* The caller u has a row that is not marked deleted in the table db.
HasProfile(db, u) == u \in DOMAIN db /\ db[u].DeletedAt = ZeroTime

\* The value of the attribute with the name in a list of distinct names.
AttrValue(attrs, name) ==
    IF \E i \in DOMAIN attrs : attrs[i].Name = name
    THEN attrs[CHOOSE i \in DOMAIN attrs : attrs[i].Name = name].Value
    ELSE <<>>

----------------------------------------------------------------------------
\* Claims checked under Spec

\* C3: a GET by a caller who has a row (not marked deleted), with a
\* well-formed header and with gorm.Open, LoadDefaultConfig and GetUser
\* succeeding and Cognito returning a non-empty email, is
\* answered 200 with Content-Type application/json and a JSON object of
\* exactly the members username, nickname, email, bio, profilePicture:
\* username, bio and profilePicture those of the caller's row, email and
\* nickname those of Cognito's attributes (nickname "" when there is none).
C3_ReadMergesProfile ==
    ( /\ Answered("GET")
      /\ Caller.ok /\ HasProfile(store, Caller.s)
      /\ HeaderHasToken
      /\ CollaboratorsUp(resp)
      /\ IdpAnswered(resp)
      /\ AttrValue(IdpAttrs(resp), "email") # <<>> )
    => /\ resp.kind = "response"
       /\ resp.StatusCode = 200
       /\ DOMAIN resp.Headers = {"Content-Type"}
       /\ resp.Headers["Content-Type"] = "application/json"
       /\ Len(ParseObject(resp.Body)) = 5
       /\ JsonKeys(resp.Body) =
            {KeyUsername, KeyNickname, KeyEmail, KeyBio, KeyProfilePicture}
       /\ JsonValues(resp.Body, KeyUsername) = {store[Caller.s].Username}
       /\ JsonValues(resp.Body, KeyBio) = {store[Caller.s].Bio}
       /\ JsonValues(resp.Body, KeyProfilePicture) = {store[Caller.s].ProfilePicture}
       /\ JsonValues(resp.Body, KeyEmail) = {AttrValue(IdpAttrs(resp), "email")}
       /\ JsonValues(resp.Body, KeyNickname) = {AttrValue(IdpAttrs(resp), "nickname")}

\* C3 witness: such a GET was answered 200 for a caller whose row holds a
\* bio with characters json.Marshal escapes, and Cognito gave no nickname.
C3_Witness ==
    /\ Answered("GET")
    /\ Caller.ok /\ HasProfile(store, Caller.s)
    /\ HeaderHasToken /\ CollaboratorsUp(resp) /\ IdpAnswered(resp)
    /\ AttrValue(IdpAttrs(resp), "email") # <<>>
    /\ \A i \in DOMAIN IdpAttrs(resp) : IdpAttrs(resp)[i].Name # "nickname"
    /\ store[Caller.s].Bio \in BioVals
    /\ resp.StatusCode = 200

\* gorm.Open succeeded in the invocation of the outcome.
Connected(out) == \A i \in CallsOf(out, "connectDB") : out.calls[i].ok

\* A body json.Unmarshal cannot decode into a User: no JSON at all, or an
\* object with a member of the wrong type for its field.
Unparsable(b) ==
    \/ b.kind = "invalid"
    \/ b.kind = "object" /\ \E k \in DOMAIN b.fields : b.fields[k].t # "string"

\* C1: a PUT changes at most the row of its caller: the rows keep their
\* usernames, no row appears or disappears, and every row of another
\* username is as it was before the PUT.
C1_UpdateConfinedToCaller ==
    [][(pc' = "responded" /\ req'.method = "PUT")
       => /\ DOMAIN store' = DOMAIN store
          /\ \A k \in DOMAIN store' :
               /\ store'[k].Username = k
               /\ (k # Caller'.s /\ k \in DOMAIN store) => store'[k] = store[k]]_vars

\* C2: a GET whose authorization header has no second field, with the
\* caller asserted and every collaborator answering, is answered with a
\* 4xx response.
C2_MalformedHeaderIsClientError ==
    (Answered("GET") /\ ~HeaderHasToken /\ Caller.ok /\ CollaboratorsUp(resp))
    => /\ resp.kind = "response"
       /\ resp.StatusCode \in 400..499

\* C4: a PUT with a JSON object answered 200 leaves in the caller's row the
\* body's bio where the body has one and the former bio where it has none,
\* and likewise for profilePicture.
C4_PartialUpdate ==
    [][( /\ pc' = "responded" /\ req'.method = "PUT"
         /\ resp'.kind = "response" /\ resp'.StatusCode = 200
         /\ req'.body.kind = "object" )
       => LET u == Caller'.s
              f == req'.body.fields
          IN  /\ u \in DOMAIN store /\ u \in DOMAIN store'
              /\ store'[u].Bio =
                   (IF "bio" \in DOMAIN f THEN f["bio"].s ELSE store[u].Bio)
              /\ store'[u].ProfilePicture =
                   (IF "profilePicture" \in DOMAIN f THEN f["profilePicture"].s
                    ELSE store[u].ProfilePicture)]_vars

\* C5: a PUT of a caller who has a row (not marked deleted), with a body
\* json.Unmarshal cannot decode and gorm.Open succeeding, is answered 400
\* "invalid request body"; and every PUT answered 400, 404 or 500 "failed
\* to parse username" made no call of db.Save and left the table as it was.
C5_FailedUpdateWritesNothing ==
    [][(pc' = "responded" /\ req'.method = "PUT")
       => /\ ( /\ Unparsable(req'.body) /\ Connected(resp')
               /\ Caller'.ok /\ HasProfile(store, Caller'.s) )
             => /\ resp'.kind = "response"
                /\ resp'.StatusCode = 400
                /\ resp'.Body = <<"invalid request body">>
          /\ ( \/ resp'.StatusCode \in {400, 404}
               \/ resp'.Body = <<"failed to parse username">> )
             => /\ CallsOf(resp', "Save") = {}
                /\ store' = store]_vars

\* C5 witness: a PUT of an existing caller whose object has a member of the
\* wrong type next to a well-typed one was answered 400.
C5_Witness ==
    /\ Answered("PUT")
    /\ Caller.ok /\ HasProfile(store, Caller.s)
    /\ req.body.kind = "object" /\ Unparsable(req.body)
    /\ "profilePicture" \in DOMAIN req.body.fields
    /\ resp.StatusCode = 400

\* C6: a request with a method other than GET and PUT is answered 405 with
\* a message naming the method, without any call on the database or on
\* Cognito, and the table is as it was.
C6_OtherMethodsTouchNothing ==
    [][(pc' = "responded" /\ req'.method \notin {"GET", "PUT"})
       => /\ resp'.kind = "response"
          /\ resp'.StatusCode = 405
          /\ resp'.Body = <<"HTTP method '", req'.method, "' not allowed">>
          /\ resp'.calls = <<>>
          /\ store' = store]_vars

\* C6 witness: a POST of a registered caller was answered.
C6_Witness ==
    /\ Answered("POST")
    /\ Caller.ok /\ Caller.s \in DOMAIN store
    /\ resp.StatusCode = 405

\* C8: a GET with the caller asserted and a well-formed header, for which
\* Cognito answers without an email (or with an empty one), is answered 500
\* "could not find user email" before any lookup of the row, whether or
\* not the caller has a row.
C8_MissingEmailIs500 ==
    ( /\ Answered("GET") /\ Caller.ok /\ HeaderHasToken
      /\ IdpAnswered(resp)
      /\ AttrValue(IdpAttrs(resp), "email") = <<>> )
    => /\ resp.kind = "response"
       /\ resp.StatusCode = 500
       /\ resp.Body = <<"could not find user email">>
       /\ CallsOf(resp, "First") = {}

\* C8 witness: such a GET was answered for a caller without a row, Cognito
\* having returned an email attribute with an empty value.
C8_Witness ==
    /\ Answered("GET") /\ Caller.ok /\ HeaderHasToken
    /\ IdpAnswered(resp)
    /\ \E i \in DOMAIN IdpAttrs(resp) :
         IdpAttrs(resp)[i].Name = "email" /\ IdpAttrs(resp)[i].Value = <<>>
    /\ Caller.s \notin DOMAIN store
    /\ resp.StatusCode = 500

\* C9: when the caller has no row, or a row whose DeletedAt is set, a PUT
\* is answered 404 "user not found" and writes nothing, and a GET with a
\* well-formed header and an email from Cognito is answered 404 "user not
\* found".
C9_MissingOrDeletedIs404 ==
    [][( /\ pc' = "responded" /\ Caller'.ok
         /\ \/ Caller'.s \notin DOMAIN store
            \/ store[Caller'.s].DeletedAt # ZeroTime )
       => /\ (req'.method = "PUT" /\ Connected(resp'))
             => /\ resp'.StatusCode = 404
                /\ resp'.Body = <<"user not found">>
                /\ store' = store
          /\ ( /\ req'.method = "GET" /\ HeaderHasToken'
               /\ IdpAnswered(resp')
               /\ AttrValue(IdpAttrs(resp'), "email") # <<>> )
             => /\ resp'.StatusCode = 404
                /\ resp'.Body = <<"user not found">>]_vars

----------------------------------------------------------------------------
\* Claims checked under SpecHist

JsonKeyOf(k) == IF k = "bio" THEN KeyBio ELSE KeyProfilePicture

\* C7: a GET answered 200 for the caller of the last PUT answered 200, with
\* no PUT in between, shows for bio and for profilePicture the value the
\* body of that PUT gave it.
C7_RoundTrip ==
    ( /\ Answered("GET")
      /\ resp.kind = "response" /\ resp.StatusCode = 200
      /\ lastPut.set /\ lastPut.caller = Caller.s )
    => \A k \in DOMAIN lastPut.fields :
         JsonValues(resp.Body, JsonKeyOf(k)) = {lastPut.fields[k].s}

----------------------------------------------------------------------------
\* Concurrent invocations of update: the platform runs two of them in
\* parallel, each on its own connection; the lookup and the write of one
\* invocation are two statements of the database, and statements of the
\* other invocation may run between them.

\* The requests of the concurrent invocations: PUTs of asserted callers.
ConcBodies ==
    {NoBody}
    \cup {b \in Bodies :
            /\ b.kind = "object"
            /\ "deletedAt" \notin DOMAIN b.fields
            /\ \A k \in DOMAIN b.fields : b.fields[k].t = "string"}
ConcRequests ==
    {[method |-> "PUT", claims |-> [k \in {"username"} |-> JString(u)],
      headers |-> <<>>, body |-> b] : u \in Usernames, b \in ConcBodies}

InitConc ==
    /\ store \in InitStores
    /\ store0 = store
    /\ pc = "idle"
    /\ req = NoRequest
    /\ resp = NoOutcome
    /\ lastPut = NoPut
    /\ cpc = [p \in Procs |-> "start"]
    /\ creq \in [Procs -> ConcRequests]
    /\ cuser = [p \in Procs |-> ZeroUser]
    /\ cresp = [p \in Procs |-> NoOutcome]
    /\ writer = <<>>

\* update of process p up to and including db.Where(...).First(&user).
Load(p) ==
    /\ cpc[p] = "start"
    /\ \E e \in UpdateEnvs :
         \E l \in {updateLoad(store, creq[p], e)} :
            /\ cuser' = [cuser EXCEPT ![p] = l.user]
            /\ cresp' = [cresp EXCEPT ![p] = l.out]
            /\ cpc' = [cpc EXCEPT ![p] = IF l.done THEN "done" ELSE "loaded"]
    /\ UNCHANGED <<store, creq, writer, store0, serialVars>>

\* update of process p from json.Unmarshal to its return, db.Save included.
Store(p) ==
    /\ cpc[p] = "loaded"
    /\ \E e \in UpdateEnvs :
         \E u \in {updateSave(store, creq[p], cuser[p], cresp[p].calls, e)} :
            /\ store' = u.db
            /\ cresp' = [cresp EXCEPT ![p] = u.out]
            /\ writer' =
                 IF u.out.StatusCode = 200
                 THEN LET k == u.out.calls[Len(u.out.calls)].arg
                      IN  [x \in DOMAIN writer \cup {k} |->
                             IF x = k THEN p ELSE writer[x]]
                 ELSE writer
    /\ cpc' = [cpc EXCEPT ![p] = "done"]
    /\ UNCHANGED <<creq, cuser, store0, serialVars>>

NextConc == \E p \in Procs : Load(p) \/ Store(p)

SpecConc == InitConc /\ [][NextConc]_vars

\* Both invocations are PUTs of the same caller, who had a row at the
\* start, and both were answered 200.
AllUp == [dbUp |-> TRUE, saveOk |-> TRUE, clientOk |-> TRUE, idp |-> IdpDown]
ConcCaller(p) == ClaimString(creq[p].claims, "username").s
BothUpdated ==
    /\ \A p \in Procs : cpc[p] = "done" /\ cresp[p].StatusCode = 200
    /\ \A p, q \in Procs : ConcCaller(p) = ConcCaller(q)
    /\ \A p \in Procs : ConcCaller(p) \in DOMAIN store0

\* Neither body names a username: both are patches of the caller's own row.
OwnRowPatches == \A p \in Procs : "username" \notin DOMAIN creq[p].body.fields

\* The table after update of p and then update of q, each run to its end.
Serial(p, q) == update(update(store0, creq[p], AllUp).db, creq[q], AllUp).db

====
